---- MODULE Spec2Model ----
(***************************************************************************)
(* Model of the revolute module firmware (Thesis_Revolute_Eval/main.c).    *)
(* The main control flow is a program counter with a return stack; the     *)
(* timer interrupt handlers, the transmitters' shift-out and the bytes     *)
(* arriving on the bus are the environment.  char is an unsigned byte, as  *)
(* on the M8C target.  Straight-line code between two blocking or          *)
(* interruptible points is one action.                                     *)
(***************************************************************************)
EXTENDS Integers, Sequences, FiniteSets, TLC

\* ---------------------------------------------------------------- defines
WAIT == 1
MY_RESPONSE == 2
RESPONSE_1 == 3
RESPONSE_2 == 4
RESPONSE_3 == 5
RESPONSE_4 == 6
HELLO_MODE == 7
INITIALIZE == 8

PORT_A == 65
PORT_B == 66
PORT_C == 67
PORT_D == 68

START_TRANSMIT == 248
END_TRANSMIT == 85
HELLO_BYTE == 200
ID_ASSIGNMENT == 201
ID_ASSIGN_OK == 202
PING == 203
CLEAR_CONFIG == 204
CONFIG_CLEARED == 205
MASTER_ID == 0
BROADCAST == 254
DEFAULT_ID == 251

SERVO_ID_MIN == 0
SERVO_ID_MAX == 253
SERVO_START == 255
READ_LENGTH == 4
WRITE_LENGTH == 4
PING_LENGTH == 2
ID_ADDRESS == 3
STATUS_RET_ADDRESS == 16
PING_SERVO == 1
READ_SERVO == 2
WRITE_SERVO == 3
SERVO_COMM_ATTEMPTS == 10
STATUS_RET_LEVEL == 1

\* ----------------------------------------------------------------- bounds
\* Number of low assignable IDs the master is given to play with; the upper
\* end of the assignable range (250) is always among the inputs.
NumIds == 1

\* -------------------------------------------------- bytes the bus delivers
AssignIds == (1..NumIds) \cup {DEFAULT_ID - 1}
\* What WAIT_RECV_cReadChar may return: 0 (nothing received), a start byte,
\* or a stray byte such as the end byte of the previous frame.
WaitPeekBytes == {0, START_TRANSMIT, END_TRANSMIT}
WaitSecondBytes == {START_TRANSMIT, END_TRANSMIT}
SrcBytes == {MASTER_ID}
DstBytes == AssignIds \cup {DEFAULT_ID, BROADCAST}
TypeBytes == {HELLO_BYTE, ID_ASSIGNMENT, PING, CLEAR_CONFIG, CONFIG_CLEARED}
ParamBytes == AssignIds \cup {0, DEFAULT_ID}
\* What a child port's receiver may show when peeked.
ChildPeekBytes == {0, START_TRANSMIT, END_TRANSMIT}
\* The servo bus.
ServoPeekBytes == {0, SERVO_START}
ServoSecondBytes == {SERVO_START, 0}
ServoSrcBytes == AssignIds \cup {BROADCAST}
ServoLenBytes == {3}
ServoErrBytes == {0, 1}
ServoParamBytes == {STATUS_RET_LEVEL, 2}

VARIABLES
  \* the program's globals (main.c lines 114-128)
  CHILD, ID, CONFIGURED, TIMEOUT, State,
  COMMAND_SOURCE, COMMAND_DESTINATION, COMMAND_TYPE, COMMAND_PARAM,
  COMMAND_LENGTH, COMMAND_ERROR, SERVO_ID,
  \* locals and arguments of the functions on the call stack
  i, flashWrite, status_return_level, child_responded, mode, sargs, ret, k,
  \* position of the main control flow
  pc, stack, em,
  \* hardware: loaded configuration, running timer, port registers, transmitters
  loaded, timer, PRT0DR, PRT0GS, PRT2DR, txBusy014, txBusy23,
  \* history: bytes put on each transmitter by the current emitter, the module
  \* state and frame at the start of the current takeAction, whether a byte was
  \* put since then, ports heard in hello-listen since the last clear, and why
  \* the last childResponse poll ended
  out014, out23, entry, sent, heard, respExit,
  \* history: the servo frames emitted in the current round of the re-ID
  \* procedure, the outcome of the previous frame when it was an ID assignment
  \* (kept while the main loop polls and while the same frame is handled
  \* again), and how often configToggle took the unload-everything path
  reidLog, prev, blindUnloads,
  \* the bus: the bytes on their way to the WAIT receiver when the traffic is
  \* laid down in advance (noise, then one frame), else any byte may arrive
  wire

\* Groups of variables, for the UNCHANGED clauses.  The port registers are the
\* sets of their bits that are 1 (bits 0..4 of ports 0, bit 0 of port 2).
ident == <<CHILD, ID, CONFIGURED, SERVO_ID>>
cmd == <<COMMAND_SOURCE, COMMAND_DESTINATION, COMMAND_TYPE, COMMAND_PARAM,
         COMMAND_LENGTH, COMMAND_ERROR>>
loops == <<i, flashWrite, status_return_level>>
pins == <<PRT0DR, PRT0GS, PRT2DR>>
tx == <<txBusy014, txBusy23>>
outs == <<out014, out23, sent>>
hist == <<reidLog, prev, blindUnloads, wire>>
vars == <<ident, cmd, TIMEOUT, State, loops, child_responded, mode, sargs, ret, k,
          pc, stack, em, loaded, timer, pins, tx, outs, entry, heard, respExit,
          hist>>

NoArgs == [id |-> 0, length |-> 0, instruction |-> 0, address |-> 0, value |-> 0,
           checksum |-> 0]
NoEntry == [in |-> FALSE, ID |-> 0, CONFIGURED |-> 0, CHILD |-> 0, SERVO_ID |-> 0,
            type |-> 0, dst |-> 0, param |-> 0]
AnyTraffic == [scripted |-> FALSE, bytes |-> <<>>, noise |-> <<>>, frame |-> <<>>]
NoPrev == [on |-> FALSE, dst |-> 0, param |-> 0, ID |-> 0, CONFIGURED |-> 0,
           SERVO_ID |-> 0]

\* main(), lines 132-145: the globals after their initialisation, about to
\* call servoFinder.
Init ==
  /\ CHILD = 0 /\ CONFIGURED = 0 /\ TIMEOUT = 0 /\ COMMAND_PARAM = 0
  /\ State = 0 /\ SERVO_ID = 255 /\ ID = DEFAULT_ID
  /\ COMMAND_SOURCE = 0 /\ COMMAND_DESTINATION = 0 /\ COMMAND_TYPE = 0
  /\ COMMAND_LENGTH = 0 /\ COMMAND_ERROR = 0
  /\ i = 0 /\ flashWrite = 0 /\ status_return_level = 3 /\ child_responded = 0
  /\ mode = 0 /\ sargs = NoArgs /\ ret = 0 /\ k = 0
  /\ pc = "sfA_while" /\ stack = <<"main_loop">> /\ em = "none"
  /\ loaded = {} /\ timer = {} /\ PRT0DR = {} /\ PRT0GS = {} /\ PRT2DR = {}
  /\ txBusy014 = FALSE /\ txBusy23 = FALSE
  /\ out014 = <<>> /\ out23 = <<>> /\ entry = NoEntry /\ sent = FALSE
  /\ heard = {} /\ respExit = "none"
  /\ reidLog = <<>> /\ prev = NoPrev /\ blindUnloads = 0
  /\ wire = AnyTraffic

\* ------------------------------------------------------- calls and returns
Call(target, back) == pc' = target /\ stack' = <<back>> \o stack
Return == pc' = Head(stack) /\ stack' = Tail(stack)


\* ------------------------------------------------------------ configToggle
BusPins == 0..4

\* The timer that belongs to a configuration carries the configuration's
\* number; WAIT has none.  timer is the set of the timers that run.
StopTimer(t) == timer \ {t}

\* The configurations configToggle unloads: that of the current state
\* (unloadConfig), or all of them when there is no state (unloadAllConfigs).
AllConfigs == WAIT..INITIALIZE
\* A variant of Unloaded without the case for INITIALIZE.
UnloadedButInitialize(state) ==
  IF state # 0 THEN {state} \ {INITIALIZE} ELSE AllConfigs
Unloaded(state) == IF state # 0 THEN {state} ELSE AllConfigs

\* A variant of TimersAfterUnload in which unloading leaves timers running.
TimersKeptRunning(gone) == timer

\* Tearing a configuration down frees its blocks, its timer among them: the
\* timers that still run after the configurations in gone were unloaded.
TimersAfterUnload(gone) == timer \ gone

\* lines 360-398: reattach the bus and set the LED (bit 0 of port 2, active low).
Publish ==
  IF CONFIGURED # 0
    THEN /\ PRT0GS' = PRT0GS \cup BusPins
         /\ PRT2DR' = PRT2DR \ {0}
    ELSE /\ PRT0GS' = PRT0GS \cup {0}
         /\ PRT2DR' = PRT2DR \cup {0}

\* lines 185-199: drive the pins high, detach them, unload the configuration
\* of the current state, or every configuration when there is no state.
configToggle_unload ==
  /\ pc = "configToggle"
  /\ PRT0DR' = PRT0DR \cup BusPins
  /\ PRT0GS' = PRT0GS \ BusPins
  /\ loaded' = loaded \ Unloaded(State)
  /\ timer' = TimersAfterUnload(Unloaded(State))
  /\ blindUnloads' = IF State = 0 THEN blindUnloads + 1 ELSE blindUnloads
  /\ pc' = "ct_load"
  /\ UNCHANGED <<reidLog, prev, wire, ident, cmd, TIMEOUT, State, loops, child_responded, mode, sargs,
                 ret, k, stack, em, PRT2DR, tx, outs, entry, heard, respExit>>

\* lines 201-212 and 240-358: load the configuration of the mode; every mode
\* but WAIT clears TIMEOUT and starts its timer.
configToggle_load ==
  /\ pc = "ct_load"
  /\ mode # MY_RESPONSE
  /\ loaded' = loaded \cup {mode}
  /\ TIMEOUT' = IF mode = WAIT THEN TIMEOUT ELSE 0
  /\ timer' = IF mode = WAIT THEN timer ELSE timer \cup {mode}
  /\ State' = mode
  /\ Publish
  /\ mode' = 0   \* the argument is dead once configToggle returns
  /\ Return
  /\ UNCHANGED <<hist, ident, cmd, loops, child_responded, sargs, ret, k, em,
                 PRT0DR, tx, outs, entry, heard, respExit>>

\* lines 213-226: load the transmitter configuration and start the settle timer.
configToggle_loadResponse ==
  /\ pc = "ct_load"
  /\ mode = MY_RESPONSE
  /\ loaded' = loaded \cup {MY_RESPONSE}
  /\ TIMEOUT' = 0
  /\ timer' = timer \cup {MY_RESPONSE}
  /\ pc' = "ct_settle"
  /\ UNCHANGED <<hist, ident, cmd, State, loops, child_responded, mode, sargs, ret, k,
                 stack, em, pins, tx, outs, entry, heard, respExit>>

\* lines 228-238: once TIMEOUT is set, stop the timer and publish the state.
configToggle_settled ==
  /\ pc = "ct_settle"
  /\ TIMEOUT # 0
  /\ timer' = StopTimer(MY_RESPONSE)
  /\ TIMEOUT' = 0
  /\ State' = MY_RESPONSE
  /\ Publish
  /\ mode' = 0
  /\ Return
  /\ UNCHANGED <<hist, ident, cmd, loops, child_responded, sargs, ret, k, em,
                 loaded, PRT0DR, tx, outs, entry, heard, respExit>>

\* lines 1063-1105: whichever timer runs, its interrupt handler sets TIMEOUT.
TIMEOUT_ISR ==
  /\ timer # {}
  /\ TIMEOUT' = 1
  /\ UNCHANGED <<hist, ident, cmd, State, loops, child_responded, mode, sargs, ret, k,
                 pc, stack, em, loaded, timer, pins, tx, outs, entry, heard,
                 respExit>>

\* ---------------------------------------------------------------- emitters
\* A put is <<transmitter, byte>>: transmitter 1 is TX_014, 2 is TX_23.
TX_014 == 1
TX_23 == 2
Both(b) == <<<<TX_014, b>>, <<TX_23, b>>>>

\* A variant of sayHelloPuts that sends 0 where the child port goes.
sayHelloPutsNoChild ==
  <<<<TX_014, START_TRANSMIT>>, <<TX_014, START_TRANSMIT>>, <<TX_014, ID>>,
    <<TX_014, MASTER_ID>>, <<TX_014, HELLO_BYTE>>, <<TX_014, 0>>,
    <<TX_014, END_TRANSMIT>>, <<TX_014, END_TRANSMIT>>>>

\* lines 166-173
sayHelloPuts ==
  <<<<TX_014, START_TRANSMIT>>, <<TX_014, START_TRANSMIT>>, <<TX_014, ID>>,
    <<TX_014, MASTER_ID>>, <<TX_014, HELLO_BYTE>>, <<TX_014, CHILD>>,
    <<TX_014, END_TRANSMIT>>, <<TX_014, END_TRANSMIT>>>>

\* lines 679-692
pingResponsePuts ==
  Both(START_TRANSMIT) \o Both(START_TRANSMIT) \o Both(ID) \o Both(MASTER_ID)
    \o Both(PING) \o Both(END_TRANSMIT) \o Both(END_TRANSMIT)

\* lines 759-772
assignedIDPuts ==
  Both(START_TRANSMIT) \o Both(START_TRANSMIT) \o Both(ID) \o Both(MASTER_ID)
    \o Both(ID_ASSIGN_OK) \o Both(END_TRANSMIT) \o Both(END_TRANSMIT)

\* lines 651-664
configClearedPuts ==
  Both(START_TRANSMIT) \o Both(START_TRANSMIT) \o Both(ID) \o Both(MASTER_ID)
    \o Both(CONFIG_CLEARED) \o Both(END_TRANSMIT) \o Both(END_TRANSMIT)

\* lines 1031-1050
servoInstructionPuts ==
  IF sargs.instruction = PING_SERVO
    THEN <<<<TX_014, SERVO_START>>, <<TX_014, SERVO_START>>, <<TX_014, sargs.id>>,
           <<TX_014, sargs.length>>, <<TX_014, sargs.instruction>>,
           <<TX_014, sargs.checksum>>>>
    ELSE <<<<TX_014, SERVO_START>>, <<TX_014, SERVO_START>>, <<TX_014, sargs.id>>,
           <<TX_014, sargs.length>>, <<TX_014, sargs.instruction>>,
           <<TX_014, sargs.address>>, <<TX_014, sargs.value>>,
           <<TX_014, sargs.checksum>>>>

Puts ==
  CASE em = "sayHello" -> sayHelloPuts
    [] em = "pingResponse" -> pingResponsePuts
    [] em = "assignedID" -> assignedIDPuts
    [] em = "configCleared" -> configClearedPuts
    [] em = "servoInstruction" -> servoInstructionPuts
    [] OTHER -> <<>>

\* The transmitters an emitter waits on before it switches away: lines 176,
\* 667-668, 695-696, 775-776, 1053.
WaitsOn23 == em \in {"pingResponse", "assignedID", "configCleared"}

\* A variant of Checksum that complements to 256.
ChecksumTo256(id, length, instruction, address, value) ==
  (256 - ((id + length + instruction + address + value) % 256)) % 256

\* lines 1027-1028: total = 255 - (sum % 256); checksum = total.
Checksum(id, length, instruction, address, value) ==
  (255 - ((id + length + instruction + address + value) % 256)) % 256

\* The first line of sayHello, pingResponse, assignedID and configCleared
\* (163, 676, 756, 648): switch to response mode.
ModuleEmitters == {"sayHello", "pingResponse", "assignedID", "configCleared"}
emitter_start ==
  /\ pc \in ModuleEmitters
  /\ em' = pc
  /\ mode' = MY_RESPONSE
  /\ k' = 1
  /\ out014' = <<>> /\ out23' = <<>>
  /\ Call("configToggle", "em_put")
  /\ UNCHANGED <<hist, ident, cmd, TIMEOUT, State, loops, child_responded, sargs, ret,
                 loaded, timer, pins, tx, sent, entry, heard, respExit>>

\* A variant of servoInstruction_start that does not switch to response mode.
servoInstruction_startNoToggle ==
  /\ pc = "servoInstruction"
  /\ em' = "servoInstruction"
  /\ k' = 1
  /\ out014' = <<>> /\ out23' = <<>>
  /\ pc' = "si_prep"
  /\ UNCHANGED <<hist, ident, cmd, TIMEOUT, State, loops, child_responded, mode,
                 sargs, ret, stack, loaded, timer, pins, tx, sent, entry, heard,
                 respExit>>

\* line 1021: servoInstruction switches to response mode.
servoInstruction_start ==
  /\ pc = "servoInstruction"
  /\ em' = "servoInstruction"
  /\ mode' = MY_RESPONSE
  /\ k' = 1
  /\ out014' = <<>> /\ out23' = <<>>
  /\ Call("configToggle", "si_prep")
  /\ UNCHANGED <<hist, ident, cmd, TIMEOUT, State, loops, child_responded, sargs, ret,
                 loaded, timer, pins, tx, sent, entry, heard, respExit>>

\* lines 1023-1028: detach the children (keep bit 0), compute the checksum.
servoInstruction_prep ==
  /\ pc = "si_prep"
  /\ PRT0GS' = PRT0GS \cap {0}
  /\ sargs' = [sargs EXCEPT !.checksum =
                 Checksum(sargs.id, sargs.length, sargs.instruction,
                          sargs.address, sargs.value)]
  /\ pc' = "em_put"
  /\ UNCHANGED <<hist, ident, cmd, TIMEOUT, State, loops, child_responded, mode, ret, k,
                 stack, em, loaded, timer, PRT0DR, PRT2DR, tx, outs, entry, heard,
                 respExit>>

\* One PutChar of the emitter's sequence.
PutChar ==
  /\ pc = "em_put"
  /\ k <= Len(Puts)
  /\ LET p == Puts[k] IN
       /\ out014' = IF p[1] = TX_014 THEN Append(out014, p[2]) ELSE out014
       /\ out23' = IF p[1] = TX_23 THEN Append(out23, p[2]) ELSE out23
       /\ txBusy014' = (txBusy014 \/ p[1] = TX_014)
       /\ txBusy23' = (txBusy23 \/ p[1] = TX_23)
  /\ sent' = TRUE
  /\ k' = k + 1
  /\ pc' = IF k = Len(Puts) THEN "em_wait014" ELSE "em_put"
  /\ UNCHANGED <<hist, ident, cmd, TIMEOUT, State, loops, child_responded, mode, sargs,
                 ret, stack, em, loaded, timer, pins, entry, heard, respExit>>

\* while(!(TX_014_bReadTxStatus() & TX_014_TX_COMPLETE));
wait_TX_014 ==
  /\ pc = "em_wait014"
  /\ ~txBusy014
  /\ pc' = IF WaitsOn23 THEN "em_wait23" ELSE "em_done"
  /\ UNCHANGED <<hist, ident, cmd, TIMEOUT, State, loops, child_responded, mode, sargs,
                 ret, k, stack, em, loaded, timer, pins, tx, outs, entry, heard,
                 respExit>>

\* while(!(TX_23_bReadTxStatus() & TX_23_TX_COMPLETE));
wait_TX_23 ==
  /\ pc = "em_wait23"
  /\ ~txBusy23
  /\ pc' = "em_done"
  /\ UNCHANGED <<hist, ident, cmd, TIMEOUT, State, loops, child_responded, mode, sargs,
                 ret, k, stack, em, loaded, timer, pins, tx, outs, entry, heard,
                 respExit>>

\* The emitter's last line: configToggle(WAIT), or configToggle(INITIALIZE) in
\* servoInstruction (line 1056); the emitter returns when configToggle does.
emitter_switchBack ==
  /\ pc = "em_done"
  /\ mode' = IF em = "servoInstruction" THEN INITIALIZE ELSE WAIT
  /\ em' = "none"
  /\ sargs' = NoArgs /\ k' = 0   \* the arguments and the position are dead
  /\ pc' = "configToggle"
  /\ reidLog' = IF em = "servoInstruction" /\ entry.in
                  THEN Append(reidLog, out014) ELSE reidLog
  /\ UNCHANGED <<prev, blindUnloads, wire, ident, cmd, TIMEOUT, State, loops, child_responded, ret,
                 stack, loaded, timer, pins, tx, outs, entry, heard, respExit>>

\* The transmitters shift out what was put: transmit complete.  PutChar blocks
\* until the transmit buffer is free, so the puts of one frame follow each
\* other without a gap and the transmitter is done only after the last put.
TX_014_complete ==
  /\ txBusy014
  /\ pc # "em_put"
  /\ txBusy014' = FALSE
  /\ UNCHANGED <<hist, ident, cmd, TIMEOUT, State, loops, child_responded, mode, sargs,
                 ret, k, pc, stack, em, loaded, timer, pins, txBusy23, outs, entry,
                 heard, respExit>>

TX_23_complete ==
  /\ txBusy23
  /\ pc # "em_put"
  /\ txBusy23' = FALSE
  /\ UNCHANGED <<hist, ident, cmd, TIMEOUT, State, loops, child_responded, mode, sargs,
                 ret, k, pc, stack, em, loaded, timer, pins, txBusy014, outs, entry,
                 heard, respExit>>

\* ------------------------------------------------------------ commandReady
\* What a read of the WAIT receiver can yield: cReadChar does not wait and
\* yields 0 when nothing was received; cGetChar waits for the next byte, so
\* it yields nothing while none arrives.  Either takes the byte it yields out
\* of the receiver.
Peeked(any) ==
  IF wire.scripted
    THEN IF wire.bytes = <<>> THEN {0} ELSE {Head(wire.bytes)}
    ELSE any
Gotten(any) ==
  IF wire.scripted
    THEN IF wire.bytes = <<>> THEN {} ELSE {Head(wire.bytes)}
    ELSE any
Taken ==
  IF wire.scripted /\ wire.bytes # <<>>
    THEN [wire EXCEPT !.bytes = Tail(wire.bytes)]
    ELSE wire

\* lines 408-410 and 503: in WAIT, peek at the receiver; anything but a start
\* byte (nothing received included) returns 0.
commandReady_wait ==
  /\ pc = "commandReady"
  /\ State = WAIT
  /\ \E b \in Peeked(WaitPeekBytes) :
       IF b = START_TRANSMIT
         THEN pc' = "cr_get2" /\ UNCHANGED <<stack, ret>>
         ELSE ret' = 0 /\ Return
  /\ wire' = Taken
  /\ UNCHANGED <<reidLog, prev, blindUnloads, ident, cmd, TIMEOUT, State, loops, child_responded, mode, sargs, k,
                 em, loaded, timer, pins, tx, outs, entry, heard, respExit>>

\* line 414: the blocking read of the second start byte.
commandReady_wait2 ==
  /\ pc = "cr_get2"
  /\ \E b \in Gotten(WaitSecondBytes) :
       IF b = START_TRANSMIT
         THEN pc' = "cr_src" /\ UNCHANGED <<stack, ret>>
         ELSE ret' = 0 /\ Return
  /\ wire' = Taken
  /\ UNCHANGED <<reidLog, prev, blindUnloads, ident, cmd, TIMEOUT, State, loops, child_responded, mode, sargs, k,
                 em, loaded, timer, pins, tx, outs, entry, heard, respExit>>

\* lines 416-421: four blocking reads, one per payload byte.
commandReady_src ==
  /\ pc = "cr_src"
  /\ \E b \in Gotten(SrcBytes) : COMMAND_SOURCE' = b
  /\ wire' = Taken
  /\ pc' = "cr_dst"
  /\ UNCHANGED <<reidLog, prev, blindUnloads, ident, COMMAND_DESTINATION, COMMAND_TYPE, COMMAND_PARAM,
                 COMMAND_LENGTH, COMMAND_ERROR, TIMEOUT, State, loops,
                 child_responded, mode, sargs, ret, k, stack, em, loaded, timer,
                 pins, tx, outs, entry, heard, respExit>>

commandReady_dst ==
  /\ pc = "cr_dst"
  /\ \E b \in Gotten(DstBytes) : COMMAND_DESTINATION' = b
  /\ wire' = Taken
  /\ pc' = "cr_type"
  /\ UNCHANGED <<reidLog, prev, blindUnloads, ident, COMMAND_SOURCE, COMMAND_TYPE, COMMAND_PARAM,
                 COMMAND_LENGTH, COMMAND_ERROR, TIMEOUT, State, loops,
                 child_responded, mode, sargs, ret, k, stack, em, loaded, timer,
                 pins, tx, outs, entry, heard, respExit>>

commandReady_type ==
  /\ pc = "cr_type"
  /\ \E b \in Gotten(TypeBytes) : COMMAND_TYPE' = b
  /\ wire' = Taken
  /\ pc' = "cr_param"
  /\ UNCHANGED <<reidLog, prev, blindUnloads, ident, COMMAND_SOURCE, COMMAND_DESTINATION, COMMAND_PARAM,
                 COMMAND_LENGTH, COMMAND_ERROR, TIMEOUT, State, loops,
                 child_responded, mode, sargs, ret, k, stack, em, loaded, timer,
                 pins, tx, outs, entry, heard, respExit>>

commandReady_param ==
  /\ pc = "cr_param"
  /\ \E b \in Gotten(ParamBytes) : COMMAND_PARAM' = b
  /\ wire' = Taken
  /\ ret' = 1
  /\ Return
  /\ UNCHANGED <<reidLog, prev, blindUnloads, ident, COMMAND_SOURCE, COMMAND_DESTINATION, COMMAND_TYPE,
                 COMMAND_LENGTH, COMMAND_ERROR, TIMEOUT, State, loops,
                 child_responded, mode, sargs, k, em, loaded, timer, pins, tx,
                 outs, entry, heard, respExit>>

\* lines 408-421 applied to the bytes f arriving at the WAIT receiver: two start
\* bytes, then the next four bytes are source, destination, type and param
\* (<<>>: no frame).  The reads block, so a shorter f yields nothing.
WaitDecode(f) ==
  IF Len(f) >= 6 /\ f[1] = START_TRANSMIT /\ f[2] = START_TRANSMIT
    THEN <<f[3], f[4], f[5], f[6]>>
    ELSE <<>>

\* lines 425-452: in HELLO_MODE, peek at the four hello receivers in order; the
\* first one showing a start byte names the child.
HelloPort(b1, b2, b3, b4) ==
  IF b1 = START_TRANSMIT THEN PORT_A
  ELSE IF b2 = START_TRANSMIT THEN PORT_B
  ELSE IF b3 = START_TRANSMIT THEN PORT_C
  ELSE IF b4 = START_TRANSMIT THEN PORT_D
  ELSE 0

commandReady_hello ==
  /\ pc = "commandReady"
  /\ State = HELLO_MODE
  /\ \E b1, b2, b3, b4 \in {0, START_TRANSMIT} :
       LET port == HelloPort(b1, b2, b3, b4) IN
         /\ CHILD' = IF port # 0 THEN port ELSE CHILD
         /\ ret' = IF port # 0 THEN 1 ELSE 0
         /\ heard' = IF port # 0 THEN heard \cup {port} ELSE heard
  /\ Return
  /\ UNCHANGED <<hist, ID, CONFIGURED, SERVO_ID, cmd, TIMEOUT, State, loops,
                 child_responded, mode, sargs, k, em, loaded, timer, pins, tx,
                 outs, entry, respExit>>

\* lines 453-484: in RESPONSE_1..4, peek at that child's receiver for an end byte.
commandReady_response ==
  /\ pc = "commandReady"
  /\ State \in {RESPONSE_1, RESPONSE_2, RESPONSE_3, RESPONSE_4}
  /\ \E b \in ChildPeekBytes : ret' = IF b = END_TRANSMIT THEN 1 ELSE 0
  /\ Return
  /\ UNCHANGED <<hist, ident, cmd, TIMEOUT, State, loops, child_responded, mode, sargs, k,
                 em, loaded, timer, pins, tx, outs, entry, heard, respExit>>

\* lines 485-487: in INITIALIZE, peek for a servo start byte.
commandReady_init ==
  /\ pc = "commandReady"
  /\ State = INITIALIZE
  /\ \E b \in ServoPeekBytes :
       IF b = SERVO_START
         THEN pc' = "in_get2" /\ UNCHANGED <<stack, ret>>
         ELSE ret' = 0 /\ Return
  /\ UNCHANGED <<hist, ident, cmd, TIMEOUT, State, loops, child_responded, mode, sargs, k,
                 em, loaded, timer, pins, tx, outs, entry, heard, respExit>>

\* line 491
commandReady_init2 ==
  /\ pc = "in_get2"
  /\ \E b \in ServoSecondBytes :
       IF b = SERVO_START
         THEN pc' = "in_frame" /\ UNCHANGED <<stack, ret>>
         ELSE ret' = 0 /\ Return
  /\ UNCHANGED <<hist, ident, cmd, TIMEOUT, State, loops, child_responded, mode, sargs, k,
                 em, loaded, timer, pins, tx, outs, entry, heard, respExit>>

\* lines 493-498: the four blocking reads of a servo reply.
commandReady_initFrame ==
  /\ pc = "in_frame"
  /\ \E s \in ServoSrcBytes, l \in ServoLenBytes, e \in ServoErrBytes,
        p \in ServoParamBytes :
       /\ COMMAND_SOURCE' = s
       /\ COMMAND_LENGTH' = l
       /\ COMMAND_ERROR' = e
       /\ COMMAND_PARAM' = p
  /\ ret' = 1
  /\ Return
  /\ UNCHANGED <<hist, ident, COMMAND_DESTINATION, COMMAND_TYPE, TIMEOUT, State, loops,
                 child_responded, mode, sargs, k, em, loaded, timer, pins, tx,
                 outs, entry, heard, respExit>>

\* ------------------------------------------------------------- childListen
\* line 784
childListen_start ==
  /\ pc = "childListen"
  /\ mode' = HELLO_MODE
  /\ Call("configToggle", "cl_poll")
  /\ UNCHANGED <<hist, ident, cmd, TIMEOUT, State, loops, child_responded, sargs, ret, k,
                 em, loaded, timer, pins, tx, outs, entry, heard, respExit>>

\* lines 787-789: while(!TIMEOUT) commandReady()
childListen_poll ==
  /\ pc = "cl_poll"
  /\ TIMEOUT = 0
  /\ Call("commandReady", "cl_got")
  /\ UNCHANGED <<hist, ident, cmd, TIMEOUT, State, loops, child_responded, mode, sargs,
                 ret, k, em, loaded, timer, pins, tx, outs, entry, heard, respExit>>

\* lines 789-792: a child was heard: return 1 as things are.
childListen_got ==
  /\ pc = "cl_got"
  /\ IF ret # 0 THEN ret' = 1 /\ Return
               ELSE pc' = "cl_poll" /\ UNCHANGED <<stack, ret>>
  /\ UNCHANGED <<hist, ident, cmd, TIMEOUT, State, loops, child_responded, mode, sargs, k,
                 em, loaded, timer, pins, tx, outs, entry, heard, respExit>>

\* lines 795-800: timed out: stop the timer, clear TIMEOUT, back to WAIT,
\* return 0 (when configToggle returns).
childListen_timeout ==
  /\ pc = "cl_poll"
  /\ TIMEOUT # 0
  /\ timer' = StopTimer(HELLO_MODE)
  /\ TIMEOUT' = 0
  /\ mode' = WAIT
  /\ ret' = 0
  /\ pc' = "configToggle"
  /\ UNCHANGED <<hist, ident, cmd, State, loops, child_responded, sargs, k, stack, em,
                 loaded, pins, tx, outs, entry, heard, respExit>>

\* ----------------------------------------------------------- childResponse
\* A variant of ResponseMode with two ports swapped.
ResponseModeSwapped(c) ==
  IF c = PORT_A THEN RESPONSE_1
  ELSE IF c = PORT_B THEN RESPONSE_3
  ELSE IF c = PORT_C THEN RESPONSE_2
  ELSE IF c = PORT_D THEN RESPONSE_4
  ELSE 0

\* The configuration childResponse switches to for a value of CHILD (0: none).
ResponseMode(c) ==
  IF c = PORT_A THEN RESPONSE_1
  ELSE IF c = PORT_B THEN RESPONSE_2
  ELSE IF c = PORT_C THEN RESPONSE_3
  ELSE IF c = PORT_D THEN RESPONSE_4
  ELSE 0

\* lines 806-824
childResponse_start ==
  /\ pc = "childResponse"
  /\ child_responded' = 0
  /\ respExit' = "none"
  /\ IF ResponseMode(CHILD) # 0
       THEN mode' = ResponseMode(CHILD) /\ Call("configToggle", "chr_poll")
       ELSE pc' = "chr_poll" /\ UNCHANGED <<mode, stack>>
  /\ UNCHANGED <<hist, ident, cmd, TIMEOUT, State, loops, sargs, ret, k, em, loaded,
                 timer, pins, tx, outs, entry, heard>>

\* lines 827-829
childResponse_poll ==
  /\ pc = "chr_poll"
  /\ child_responded = 0 /\ TIMEOUT = 0
  /\ Call("commandReady", "chr_got")
  /\ UNCHANGED <<hist, ident, cmd, TIMEOUT, State, loops, child_responded, mode, sargs,
                 ret, k, em, loaded, timer, pins, tx, outs, entry, heard, respExit>>

\* lines 829-832
childResponse_got ==
  /\ pc = "chr_got"
  /\ child_responded' = IF ret # 0 THEN 1 ELSE child_responded
  /\ pc' = "chr_poll"
  /\ ret' = 0   \* the returned value is consumed
  /\ UNCHANGED <<hist, ident, cmd, TIMEOUT, State, loops, mode, sargs, k, stack, em,
                 loaded, timer, pins, tx, outs, entry, heard, respExit>>

\* lines 835-857: stop the timer of the child's port, clear TIMEOUT, back to
\* WAIT; childResponse returns when configToggle does.
childResponse_end ==
  /\ pc = "chr_poll"
  /\ child_responded # 0 \/ TIMEOUT # 0
  /\ respExit' = IF child_responded # 0 THEN "end" ELSE "timeout"
  /\ timer' = IF ResponseMode(CHILD) # 0 THEN StopTimer(ResponseMode(CHILD))
                                         ELSE timer
  /\ TIMEOUT' = 0
  /\ mode' = WAIT
  /\ pc' = "configToggle"
  /\ child_responded' = 0   \* the returned value is never used
  /\ UNCHANGED <<hist, ident, cmd, State, loops, sargs, ret, k, stack,
                 em, loaded, pins, tx, outs, entry, heard>>

\* ------------------------------------------------------------- servoFinder
BroadcastPing == [id |-> BROADCAST, length |-> PING_LENGTH, instruction |-> PING_SERVO,
                  address |-> 0, value |-> 0, checksum |-> 0]

\* line 875: while(SERVO_ID == SERVO_START), entering the for loop with i = 0;
\* line 952 when the servo ID is known.
servoFinder_while ==
  /\ pc = "sfA_while"
  /\ i' = 0   \* servoFinder's i is dead once both loops are left
  /\ pc' = IF SERVO_ID = SERVO_START THEN "sfA_for"
           ELSE IF status_return_level # STATUS_RET_LEVEL THEN "sfB_for"
           ELSE "sf_end"
  /\ UNCHANGED <<hist, ident, cmd, TIMEOUT, State, flashWrite, status_return_level,
                 child_responded, mode, sargs, ret, k, stack, em, loaded, timer,
                 pins, tx, outs, entry, heard, respExit>>

\* lines 877-880: one more attempt: ping every servo.
servoFinder_ping ==
  /\ pc = "sfA_for"
  /\ i < SERVO_COMM_ATTEMPTS
  /\ sargs' = BroadcastPing
  /\ Call("servoInstruction", "sfA_poll")
  /\ UNCHANGED <<hist, ident, cmd, TIMEOUT, State, loops, child_responded, mode, ret, k,
                 em, loaded, timer, pins, tx, outs, entry, heard, respExit>>

\* lines 909-919: the attempts are used up: note the flash write, test again.
servoFinder_exhausted ==
  /\ pc = "sfA_for"
  /\ i >= SERVO_COMM_ATTEMPTS
  /\ flashWrite' = IF SERVO_ID = SERVO_START /\ flashWrite = 0 THEN 1 ELSE flashWrite
  /\ pc' = "sfA_while"
  /\ UNCHANGED <<hist, ident, cmd, TIMEOUT, State, i, status_return_level,
                 child_responded, mode, sargs, ret, k, stack, em, loaded, timer,
                 pins, tx, outs, entry, heard, respExit>>

\* lines 883-885: while(!TIMEOUT) commandReady(); i++ when the loop ends.
servoFinder_poll ==
  /\ pc = "sfA_poll"
  /\ IF TIMEOUT = 0
       THEN Call("commandReady", "sfA_got") /\ UNCHANGED i
       ELSE pc' = "sfA_for" /\ i' = i + 1 /\ UNCHANGED stack
  /\ UNCHANGED <<hist, ident, cmd, TIMEOUT, State, flashWrite, status_return_level,
                 child_responded, mode, sargs, ret, k, em, loaded, timer, pins, tx,
                 outs, entry, heard, respExit>>

\* A variant of servoFinder_got that does not look at the reply's error byte.
servoFinder_gotAnyError ==
  /\ pc = "sfA_got"
  /\ IF ret # 0
       THEN /\ TIMEOUT' = 1
            /\ IF COMMAND_SOURCE >= SERVO_ID_MIN /\ COMMAND_SOURCE <= SERVO_ID_MAX
                 THEN SERVO_ID' = COMMAND_SOURCE /\ i' = SERVO_COMM_ATTEMPTS
                 ELSE UNCHANGED <<SERVO_ID, i>>
       ELSE UNCHANGED <<TIMEOUT, SERVO_ID, i>>
  /\ pc' = "sfA_poll"
  /\ ret' = 0
  /\ UNCHANGED <<hist, CHILD, ID, CONFIGURED, cmd, State, flashWrite,
                 status_return_level, child_responded, mode, sargs, k, stack, em,
                 loaded, timer, pins, tx, outs, entry, heard, respExit>>

\* lines 885-905: a reply without error ends the wait; a source in range is
\* recorded as the servo's ID.
servoFinder_got ==
  /\ pc = "sfA_got"
  /\ IF ret # 0 /\ COMMAND_ERROR = 0
       THEN /\ TIMEOUT' = 1
            /\ IF COMMAND_SOURCE >= SERVO_ID_MIN /\ COMMAND_SOURCE <= SERVO_ID_MAX
                 THEN SERVO_ID' = COMMAND_SOURCE /\ i' = SERVO_COMM_ATTEMPTS
                 ELSE UNCHANGED <<SERVO_ID, i>>
       ELSE UNCHANGED <<TIMEOUT, SERVO_ID, i>>
  /\ pc' = "sfA_poll"
  /\ ret' = 0   \* the returned value is consumed
  /\ UNCHANGED <<hist, CHILD, ID, CONFIGURED, cmd, State, flashWrite, status_return_level,
                 child_responded, mode, sargs, k, stack, em, loaded, timer,
                 pins, tx, outs, entry, heard, respExit>>

\* lines 955-958: one more attempt: read the servo's status return level.
servoFinder_read ==
  /\ pc = "sfB_for"
  /\ i < SERVO_COMM_ATTEMPTS
  /\ sargs' = [id |-> SERVO_ID, length |-> READ_LENGTH, instruction |-> READ_SERVO,
               address |-> STATUS_RET_ADDRESS, value |-> 1, checksum |-> 0]
  /\ Call("servoInstruction", "sfB_poll")
  /\ UNCHANGED <<hist, ident, cmd, TIMEOUT, State, loops, child_responded, mode, ret, k,
                 em, loaded, timer, pins, tx, outs, entry, heard, respExit>>

\* lines 952 and 989-994: the attempts are used up: test the level again.
servoFinder_readExhausted ==
  /\ pc = "sfB_for"
  /\ i >= SERVO_COMM_ATTEMPTS
  /\ pc' = "sfA_while"
  /\ UNCHANGED <<hist, ident, cmd, TIMEOUT, State, loops, child_responded, mode, sargs,
                 ret, k, stack, em, loaded, timer, pins, tx, outs, entry, heard,
                 respExit>>

\* lines 961-964
servoFinder_readPoll ==
  /\ pc = "sfB_poll"
  /\ IF TIMEOUT = 0
       THEN Call("commandReady", "sfB_got") /\ UNCHANGED i
       ELSE pc' = "sfB_for" /\ i' = i + 1 /\ UNCHANGED stack
  /\ UNCHANGED <<hist, ident, cmd, TIMEOUT, State, flashWrite, status_return_level,
                 child_responded, mode, sargs, ret, k, em, loaded, timer, pins, tx,
                 outs, entry, heard, respExit>>

\* lines 964-984
servoFinder_readGot ==
  /\ pc = "sfB_got"
  /\ IF ret # 0 /\ COMMAND_ERROR = 0
       THEN /\ TIMEOUT' = 1
            /\ IF COMMAND_PARAM = STATUS_RET_LEVEL
                 THEN status_return_level' = COMMAND_PARAM
                      /\ i' = SERVO_COMM_ATTEMPTS
                 ELSE UNCHANGED <<status_return_level, i>>
       ELSE UNCHANGED <<TIMEOUT, status_return_level, i>>
  /\ pc' = "sfB_poll"
  /\ ret' = 0   \* the returned value is consumed
  /\ UNCHANGED <<hist, ident, cmd, State, flashWrite, child_responded, mode, sargs, k,
                 stack, em, loaded, timer, pins, tx, outs, entry, heard, respExit>>

\* line 1010: configToggle(WAIT); servoFinder returns when configToggle does.
servoFinder_end ==
  /\ pc = "sf_end"
  /\ mode' = WAIT
  /\ pc' = "configToggle"
  /\ flashWrite' = 0   \* a dead local
  /\ UNCHANGED <<hist, ident, cmd, TIMEOUT, State, i, status_return_level, child_responded,
                 sargs, ret, k,
                 stack, em, loaded, timer, pins, tx, outs, entry, heard, respExit>>

\* -------------------------------------------------------------------- main
\* lines 151-153: the main loop polls for a frame.  What servoFinder left in
\* the history variables is dropped here.
main_poll ==
  /\ pc = "main_loop"
  /\ Call("commandReady", "main_got")
  /\ out014' = <<>> /\ out23' = <<>> /\ sent' = FALSE
  /\ entry' = NoEntry
  /\ respExit' = "none"
  /\ UNCHANGED <<hist, ident, cmd, TIMEOUT, State, loops, child_responded, mode, sargs,
                 ret, k, em, loaded, timer, pins, tx, heard>>

\* lines 153-157: a decoded frame is handed to takeAction.
main_got ==
  /\ pc = "main_got"
  /\ IF ret # 0
       THEN /\ pc' = "takeAction"
            /\ entry' = [in |-> TRUE, ID |-> ID, CONFIGURED |-> CONFIGURED,
                         CHILD |-> CHILD, SERVO_ID |-> SERVO_ID,
                         type |-> COMMAND_TYPE, dst |-> COMMAND_DESTINATION,
                         param |-> COMMAND_PARAM]
       ELSE pc' = "main_loop" /\ UNCHANGED entry
  /\ prev' = IF ret # 0 /\ ~( /\ COMMAND_TYPE = ID_ASSIGNMENT
                              /\ COMMAND_DESTINATION = prev.dst
                              /\ COMMAND_PARAM = prev.param )
              THEN NoPrev ELSE prev
  /\ ret' = 0   \* the returned value is consumed
  /\ UNCHANGED <<reidLog, blindUnloads, wire, ident, cmd, TIMEOUT, State, loops, child_responded, mode, sargs,
                 k, stack, em, loaded, timer, pins, tx, outs, heard, respExit>>

\* -------------------------------------------------------------- takeAction
\* Variants of ValidParam with one bound of the range wrong.
ValidParamBelow250(p) == p > MASTER_ID /\ p < DEFAULT_ID - 1
ValidParamNoUpper(p) == p > MASTER_ID

\* line 552
ValidParam(p) == p > MASTER_ID /\ p < DEFAULT_ID

\* A variant of ClearApplies that leaves out the module's own ID.
ClearAppliesStrict(dst, id) == dst < id \/ dst = BROADCAST

\* line 625
ClearApplies(dst, id) == dst <= id \/ dst = BROADCAST

\* A variant of ClearConfig that forgets the child.
ClearConfigKeepsChild ==
  /\ IF COMMAND_DESTINATION <= ID \/ COMMAND_DESTINATION = BROADCAST
       THEN ID' = DEFAULT_ID /\ CONFIGURED' = 0 /\ UNCHANGED <<CHILD, heard>>
       ELSE UNCHANGED <<ID, CONFIGURED, CHILD, heard>>
  /\ PRT2DR' = PRT2DR \cup {0}

\* lines 627-629 (the clear) and 641 (LED off), done for every CLEAR_CONFIG.
ClearConfig ==
  /\ IF ClearApplies(COMMAND_DESTINATION, ID)
       THEN ID' = DEFAULT_ID /\ CONFIGURED' = 0 /\ CHILD' = 0 /\ heard' = {}
       ELSE UNCHANGED <<ID, CONFIGURED, CHILD, heard>>
  /\ PRT2DR' = PRT2DR \cup {0}

\* A variant of takeAction_hello that listens for children whenever the
\* module is configured.
takeAction_helloListensAgain ==
  /\ pc = "takeAction"
  /\ COMMAND_TYPE = HELLO_BYTE
  /\ IF CONFIGURED = 0 THEN Call("sayHello", "ta_return")
     ELSE Call("childListen", "ta_listened")
  /\ UNCHANGED <<hist, ident, cmd, TIMEOUT, State, loops, child_responded, mode, sargs,
                 ret, k, em, loaded, timer, pins, tx, outs, entry, heard, respExit>>

\* lines 510-532: HELLO
takeAction_hello ==
  /\ pc = "takeAction"
  /\ COMMAND_TYPE = HELLO_BYTE
  /\ IF CONFIGURED = 0 THEN Call("sayHello", "ta_return")
     ELSE IF CHILD = 0 THEN Call("childListen", "ta_listened")
     ELSE Call("childResponse", "ta_return")
  /\ UNCHANGED <<hist, ident, cmd, TIMEOUT, State, loops, child_responded, mode, sargs,
                 ret, k, em, loaded, timer, pins, tx, outs, entry, heard, respExit>>

\* lines 521-525: forward the hello when childListen heard a child.
takeAction_listened ==
  /\ pc = "ta_listened"
  /\ IF ret # 0 THEN Call("sayHello", "ta_return")
               ELSE pc' = "ta_return" /\ UNCHANGED stack
  /\ ret' = 0   \* the returned value is consumed
  /\ UNCHANGED <<hist, ident, cmd, TIMEOUT, State, loops, child_responded, mode, sargs,
                 k, em, loaded, timer, pins, tx, outs, entry, heard, respExit>>

\* lines 533-546: PING
takeAction_ping ==
  /\ pc = "takeAction"
  /\ COMMAND_TYPE = PING
  /\ IF COMMAND_DESTINATION = ID THEN Call("pingResponse", "ta_return")
     ELSE IF COMMAND_DESTINATION > ID THEN Call("childResponse", "ta_return")
     ELSE pc' = "ta_return" /\ UNCHANGED stack
  /\ UNCHANGED <<hist, ident, cmd, TIMEOUT, State, loops, child_responded, mode, sargs,
                 ret, k, em, loaded, timer, pins, tx, outs, entry, heard, respExit>>

\* A variant of takeAction_assign that counts the assignments in CONFIGURED.
takeAction_assignCounts ==
  /\ pc = "takeAction"
  /\ COMMAND_TYPE = ID_ASSIGNMENT
  /\ IF COMMAND_DESTINATION = ID
       THEN IF ValidParam(COMMAND_PARAM)
              THEN /\ ID' = COMMAND_PARAM
                   /\ CONFIGURED' = CONFIGURED + 1
                   /\ Call("assignedID", "ta_reid")
              ELSE pc' = "ta_return" /\ UNCHANGED <<ID, CONFIGURED, stack>>
       ELSE IF COMMAND_DESTINATION > ID
              THEN Call("childResponse", "ta_return") /\ UNCHANGED <<ID, CONFIGURED>>
              ELSE pc' = "ta_return" /\ UNCHANGED <<ID, CONFIGURED, stack>>
  /\ UNCHANGED <<hist, CHILD, SERVO_ID, cmd, TIMEOUT, State, loops, child_responded,
                 mode, sargs, ret, k, em, loaded, timer, pins, tx, outs, entry,
                 heard, respExit>>

\* lines 547-561 and 608-612: ID_ASSIGNMENT
takeAction_assign ==
  /\ pc = "takeAction"
  /\ COMMAND_TYPE = ID_ASSIGNMENT
  /\ IF COMMAND_DESTINATION = ID
       THEN IF ValidParam(COMMAND_PARAM)
              THEN /\ ID' = COMMAND_PARAM
                   /\ CONFIGURED' = 1
                   /\ Call("assignedID", "ta_reid")
              ELSE pc' = "ta_return" /\ UNCHANGED <<ID, CONFIGURED, stack>>
       ELSE IF COMMAND_DESTINATION > ID
              THEN Call("childResponse", "ta_return") /\ UNCHANGED <<ID, CONFIGURED>>
              ELSE pc' = "ta_return" /\ UNCHANGED <<ID, CONFIGURED, stack>>
  /\ UNCHANGED <<hist, CHILD, SERVO_ID, cmd, TIMEOUT, State, loops, child_responded, mode,
                 sargs, ret, k, em, loaded, timer, pins, tx, outs, entry, heard,
                 respExit>>

\* A variant of takeAction_reid that runs one round before it tests the IDs.
takeAction_reidAtLeastOnce ==
  /\ pc = "ta_reid"
  /\ IF ID # SERVO_ID \/ reidLog = <<>>
       THEN /\ sargs' = [id |-> SERVO_ID, length |-> WRITE_LENGTH,
                         instruction |-> WRITE_SERVO, address |-> ID_ADDRESS,
                         value |-> ID, checksum |-> 0]
            /\ i' = 0
            /\ reidLog' = <<>>
            /\ Call("servoInstruction", "ta_reid_for")
       ELSE pc' = "ta_return" /\ UNCHANGED <<sargs, i, stack, reidLog>>
  /\ UNCHANGED <<prev, blindUnloads, wire, ident, cmd, TIMEOUT, State, flashWrite, status_return_level,
                 child_responded, mode, ret, k, em, loaded, timer, pins, tx, outs,
                 entry, heard, respExit>>

\* lines 564-572: while(ID != SERVO_ID) write the new ID to the servo.
takeAction_reid ==
  /\ pc = "ta_reid"
  /\ IF ID # SERVO_ID
       THEN /\ sargs' = [id |-> SERVO_ID, length |-> WRITE_LENGTH,
                         instruction |-> WRITE_SERVO, address |-> ID_ADDRESS,
                         value |-> ID, checksum |-> 0]
            /\ i' = 0
            /\ reidLog' = <<>>
            /\ Call("servoInstruction", "ta_reid_for")
       ELSE pc' = "ta_return" /\ UNCHANGED <<sargs, i, stack, reidLog>>
  /\ UNCHANGED <<prev, blindUnloads, wire, ident, cmd, TIMEOUT, State, flashWrite, status_return_level,
                 child_responded, mode, ret, k, em, loaded, timer, pins, tx, outs,
                 entry, heard, respExit>>

\* lines 575-578: for(i = 0; i < SERVO_COMM_ATTEMPTS; i++) ping every servo.
takeAction_reidPing ==
  /\ pc = "ta_reid_for"
  /\ IF i < SERVO_COMM_ATTEMPTS
       THEN sargs' = BroadcastPing /\ Call("servoInstruction", "ta_reid_poll")
       ELSE pc' = "ta_reid" /\ UNCHANGED <<sargs, stack>>
  /\ UNCHANGED <<hist, ident, cmd, TIMEOUT, State, loops, child_responded, mode, ret, k,
                 em, loaded, timer, pins, tx, outs, entry, heard, respExit>>

\* lines 581-584
takeAction_reidPoll ==
  /\ pc = "ta_reid_poll"
  /\ IF TIMEOUT = 0
       THEN Call("commandReady", "ta_reid_got") /\ UNCHANGED i
       ELSE pc' = "ta_reid_for" /\ i' = i + 1 /\ UNCHANGED stack
  /\ UNCHANGED <<hist, ident, cmd, TIMEOUT, State, flashWrite, status_return_level,
                 child_responded, mode, sargs, ret, k, em, loaded, timer, pins, tx,
                 outs, entry, heard, respExit>>

\* A variant of takeAction_reidGot without the toggle back to WAIT.
takeAction_reidGotNoToggle ==
  /\ pc = "ta_reid_got"
  /\ IF ret # 0 /\ COMMAND_ERROR = 0 /\ COMMAND_SOURCE = ID
       THEN TIMEOUT' = 1 /\ i' = SERVO_COMM_ATTEMPTS /\ SERVO_ID' = ID
       ELSE UNCHANGED <<TIMEOUT, i, SERVO_ID>>
  /\ pc' = "ta_reid_poll"
  /\ ret' = 0
  /\ UNCHANGED <<hist, CHILD, ID, CONFIGURED, cmd, State, flashWrite, status_return_level,
                 child_responded, mode, sargs, k, stack, em, loaded, timer, pins,
                 tx, outs, entry, heard, respExit>>

\* A variant of takeAction_reidGot that takes any reply without error.
takeAction_reidGotAnySource ==
  /\ pc = "ta_reid_got"
  /\ IF ret # 0 /\ COMMAND_ERROR = 0
       THEN /\ TIMEOUT' = 1
            /\ i' = SERVO_COMM_ATTEMPTS
            /\ SERVO_ID' = ID
            /\ mode' = WAIT
            /\ Call("configToggle", "ta_reid_poll")
       ELSE pc' = "ta_reid_poll" /\ UNCHANGED <<TIMEOUT, i, SERVO_ID, mode, stack>>
  /\ ret' = 0
  /\ UNCHANGED <<hist, CHILD, ID, CONFIGURED, cmd, State, flashWrite,
                 status_return_level, child_responded, sargs, k, em, loaded, timer,
                 pins, tx, outs, entry, heard, respExit>>

\* lines 584-601: a reply without error from a servo whose ID is ours ends the
\* procedure: record the ID and toggle back to WAIT.
takeAction_reidGot ==
  /\ pc = "ta_reid_got"
  /\ IF ret # 0 /\ COMMAND_ERROR = 0 /\ COMMAND_SOURCE = ID
       THEN /\ TIMEOUT' = 1
            /\ i' = SERVO_COMM_ATTEMPTS
            /\ SERVO_ID' = ID
            /\ mode' = WAIT
            /\ Call("configToggle", "ta_reid_poll")
       ELSE pc' = "ta_reid_poll" /\ UNCHANGED <<TIMEOUT, i, SERVO_ID, mode, stack>>
  /\ ret' = 0   \* the returned value is consumed
  /\ UNCHANGED <<hist, CHILD, ID, CONFIGURED, cmd, State, flashWrite, status_return_level,
                 child_responded, sargs, k, em, loaded, timer, pins, tx, outs,
                 entry, heard, respExit>>

\* A variant of takeAction_clearAck that clears before it acknowledges.
takeAction_clearFirst ==
  /\ pc = "takeAction"
  /\ COMMAND_TYPE = CLEAR_CONFIG
  /\ COMMAND_DESTINATION = ID
  /\ ClearConfig
  /\ Call("configCleared", "ta_clear")
  /\ UNCHANGED <<hist, SERVO_ID, cmd, TIMEOUT, State, loops, child_responded, mode, sargs,
                 ret, k, em, loaded, timer, PRT0DR, PRT0GS, tx, outs, entry,
                 respExit>>

\* lines 614-620: CLEAR_CONFIG addressed to this module is acknowledged first.
takeAction_clearAck ==
  /\ pc = "takeAction"
  /\ COMMAND_TYPE = CLEAR_CONFIG
  /\ COMMAND_DESTINATION = ID
  /\ Call("configCleared", "ta_clear")
  /\ UNCHANGED <<hist, ident, cmd, TIMEOUT, State, loops, child_responded, mode, sargs,
                 ret, k, em, loaded, timer, pins, tx, outs, entry, heard, respExit>>

\* lines 625-642 after the acknowledgement.
takeAction_clear ==
  /\ pc = "ta_clear"
  /\ ClearConfig
  /\ pc' = "ta_return"
  /\ UNCHANGED <<hist, SERVO_ID, cmd, TIMEOUT, State, loops, child_responded, mode, sargs,
                 ret, k, stack, em, loaded, timer, PRT0DR, PRT0GS, tx, outs, entry,
                 respExit>>

\* lines 614-642 for a CLEAR_CONFIG that is not addressed to this module.
takeAction_clearOther ==
  /\ pc = "takeAction"
  /\ COMMAND_TYPE = CLEAR_CONFIG
  /\ COMMAND_DESTINATION # ID
  /\ ClearConfig
  /\ pc' = "ta_return"
  /\ UNCHANGED <<hist, SERVO_ID, cmd, TIMEOUT, State, loops, child_responded, mode, sargs,
                 ret, k, stack, em, loaded, timer, PRT0DR, PRT0GS, tx, outs, entry,
                 respExit>>

\* Any other type: takeAction does nothing.
takeAction_other ==
  /\ pc = "takeAction"
  /\ COMMAND_TYPE \notin {HELLO_BYTE, PING, ID_ASSIGNMENT, CLEAR_CONFIG}
  /\ pc' = "ta_return"
  /\ UNCHANGED <<hist, ident, cmd, TIMEOUT, State, loops, child_responded, mode, sargs,
                 ret, k, stack, em, loaded, timer, pins, tx, outs, entry, heard,
                 respExit>>

\* line 158: takeAction has returned; the main loop goes round.  The history
\* of the frame that was handled ends here.
main_next ==
  /\ pc = "ta_return"
  /\ pc' = "main_loop"
  /\ i' = 0   \* takeAction's local is dead
  /\ out014' = <<>> /\ out23' = <<>> /\ sent' = FALSE
  /\ entry' = NoEntry
  /\ respExit' = "none"
  /\ reidLog' = <<>>
  /\ prev' = IF entry.type = ID_ASSIGNMENT
              THEN [on |-> TRUE, dst |-> entry.dst, param |-> entry.param,
                    ID |-> ID, CONFIGURED |-> CONFIGURED, SERVO_ID |-> SERVO_ID]
              ELSE NoPrev
  /\ UNCHANGED <<blindUnloads, wire, ident, cmd, TIMEOUT, State, flashWrite, status_return_level,
                 child_responded, mode, sargs, ret, k, stack, em, loaded, timer,
                 pins, tx, heard>>

\* ----------------------------------------------------------- specification
Next ==
  \/ configToggle_unload \/ configToggle_load \/ configToggle_loadResponse
  \/ configToggle_settled \/ TIMEOUT_ISR
  \/ emitter_start \/ servoInstruction_start \/ servoInstruction_prep
  \/ PutChar \/ wait_TX_014 \/ wait_TX_23 \/ emitter_switchBack
  \/ TX_014_complete \/ TX_23_complete
  \/ commandReady_wait \/ commandReady_wait2 \/ commandReady_src
  \/ commandReady_dst \/ commandReady_type \/ commandReady_param
  \/ commandReady_hello \/ commandReady_response
  \/ commandReady_init \/ commandReady_init2 \/ commandReady_initFrame
  \/ childListen_start \/ childListen_poll \/ childListen_got
  \/ childListen_timeout
  \/ childResponse_start \/ childResponse_poll \/ childResponse_got
  \/ childResponse_end
  \/ servoFinder_while \/ servoFinder_ping \/ servoFinder_exhausted
  \/ servoFinder_poll \/ servoFinder_got \/ servoFinder_read
  \/ servoFinder_readExhausted \/ servoFinder_readPoll \/ servoFinder_readGot
  \/ servoFinder_end
  \/ main_poll \/ main_got \/ main_next
  \/ takeAction_hello \/ takeAction_listened \/ takeAction_ping
  \/ takeAction_assign \/ takeAction_reid \/ takeAction_reidPing
  \/ takeAction_reidPoll \/ takeAction_reidGot
  \/ takeAction_clearAck \/ takeAction_clear \/ takeAction_clearOther
  \/ takeAction_other

Spec == Init /\ [][Next]_vars

\* What the hardware does by itself: a running timer fires, a transmitter
\* that was given bytes shifts them out.
Environment == TIMEOUT_ISR \/ TX_014_complete \/ TX_23_complete

\* The blocking reads (cGetChar) go on only when the bus delivers a byte.
BlockingRead ==
  \/ commandReady_wait2 \/ commandReady_src \/ commandReady_dst
  \/ commandReady_type \/ commandReady_param
  \/ commandReady_init2 \/ commandReady_initFrame

\* The processor keeps executing the main control flow wherever it does not
\* wait for the bus.
Flow == Next /\ ~Environment /\ ~BlockingRead

FairSpec ==
  /\ Init /\ [][Next]_vars
  /\ WF_vars(Flow)
  /\ WF_vars(TIMEOUT_ISR) /\ WF_vars(TX_014_complete) /\ WF_vars(TX_23_complete)

\* servoInstruction on its own: called once, as the first thing after reset,
\* with any of these arguments (address and value are 0 for a ping).
ServoIdArgs == {0, 1, 253, BROADCAST, 255}
ServoLengthArgs == {PING_LENGTH, WRITE_LENGTH, 255}
ServoAddressArgs == {0, ID_ADDRESS, STATUS_RET_ADDRESS, 255}
ServoValueArgs == {0, 1, 250, 255}
ServoArgs ==
  { [id |-> a, length |-> l, instruction |-> n, address |-> d, value |-> v,
     checksum |-> 0] :
      a \in ServoIdArgs, l \in ServoLengthArgs,
      n \in {PING_SERVO, READ_SERVO, WRITE_SERVO},
      d \in ServoAddressArgs, v \in ServoValueArgs }

ChecksumInit ==
  /\ CHILD = 0 /\ CONFIGURED = 0 /\ TIMEOUT = 0 /\ COMMAND_PARAM = 0
  /\ State = 0 /\ SERVO_ID = 255 /\ ID = DEFAULT_ID
  /\ COMMAND_SOURCE = 0 /\ COMMAND_DESTINATION = 0 /\ COMMAND_TYPE = 0
  /\ COMMAND_LENGTH = 0 /\ COMMAND_ERROR = 0
  /\ i = 0 /\ flashWrite = 0 /\ status_return_level = 3 /\ child_responded = 0
  /\ mode = 0 /\ ret = 0 /\ k = 0
  /\ sargs \in {a \in ServoArgs :
                  a.instruction = PING_SERVO => (a.address = 0 /\ a.value = 0)}
  /\ pc = "servoInstruction" /\ stack = <<"called">> /\ em = "none"
  /\ loaded = {} /\ timer = {} /\ PRT0DR = {} /\ PRT0GS = {} /\ PRT2DR = {}
  /\ txBusy014 = FALSE /\ txBusy23 = FALSE
  /\ out014 = <<>> /\ out23 = <<>> /\ entry = NoEntry /\ sent = FALSE
  /\ heard = {} /\ respExit = "none"
  /\ reidLog = <<>> /\ prev = NoPrev /\ blindUnloads = 0
  /\ wire = AnyTraffic

ChecksumNext ==
  \/ servoInstruction_start \/ configToggle_unload \/ configToggle_loadResponse
  \/ configToggle_settled \/ TIMEOUT_ISR \/ servoInstruction_prep \/ PutChar
  \/ wait_TX_014 \/ TX_014_complete \/ emitter_switchBack \/ configToggle_load

ChecksumSpec == ChecksumInit /\ [][ChecksumNext]_vars

\* ------------------------------------------------- the WAIT reader alone
\* What precedes a frame on the bus: nothing, a stray byte, a lone start byte
\* followed by another byte, or the two start bytes of a frame that was cut
\* off there.
Noises ==
  {<<>>, <<END_TRANSMIT>>, <<START_TRANSMIT, END_TRANSMIT>>,
   <<START_TRANSMIT, START_TRANSMIT>>}
\* The well-formed frames of the master (<<>>: no frame follows).
Frames ==
  {<<>>} \cup
  {<<START_TRANSMIT, START_TRANSMIT, s, d, t, p, END_TRANSMIT, END_TRANSMIT>> :
     s \in SrcBytes, d \in DstBytes, t \in TypeBytes, p \in ParamBytes}

\* The module as it is when the main loop polls for the first time (after
\* servoFinder found servo 250 and read its status return level), with the
\* traffic on the bus laid down in advance.
ReaderInit ==
  /\ CHILD = 0 /\ CONFIGURED = 0 /\ TIMEOUT = 1 /\ COMMAND_PARAM = 1
  /\ State = WAIT /\ SERVO_ID = 250 /\ ID = DEFAULT_ID
  /\ COMMAND_SOURCE = 1 /\ COMMAND_DESTINATION = 0 /\ COMMAND_TYPE = 0
  /\ COMMAND_LENGTH = 3 /\ COMMAND_ERROR = 0
  /\ i = 0 /\ flashWrite = 0 /\ status_return_level = 1 /\ child_responded = 0
  /\ mode = 0 /\ sargs = NoArgs /\ ret = 0 /\ k = 0
  /\ pc = "main_loop" /\ stack = <<>> /\ em = "none"
  /\ loaded = {WAIT} /\ timer = {} /\ PRT0DR = BusPins /\ PRT0GS = {0}
  /\ PRT2DR = {0}
  /\ txBusy014 = FALSE /\ txBusy23 = FALSE
  /\ out014 = <<255, 255, 250, 4, 2, 16, 1, 238>> /\ out23 = <<>>
  /\ entry = NoEntry /\ sent = TRUE
  /\ heard = {} /\ respExit = "none"
  /\ reidLog = <<>> /\ prev = NoPrev /\ blindUnloads = 1
  /\ \E n \in Noises, f \in Frames :
       wire = [scripted |-> TRUE, bytes |-> n \o f, noise |-> n, frame |-> f]

\* The main loop up to the call of takeAction.
ReaderNext ==
  \/ main_poll \/ commandReady_wait \/ commandReady_wait2 \/ commandReady_src
  \/ commandReady_dst \/ commandReady_type \/ commandReady_param \/ main_got

ReaderSpec == ReaderInit /\ [][ReaderNext]_vars

\* ================================================================== claims
Ports == {PORT_A, PORT_B, PORT_C, PORT_D}
AssignedRange == 1..250

\* The frame being handled and the module as it was when takeAction started.
Handling(type) == entry.in /\ entry.type = type
Returned == pc = "ta_return"
Untouched ==
  /\ ID = entry.ID /\ CONFIGURED = entry.CONFIGURED
  /\ CHILD = entry.CHILD /\ SERVO_ID = entry.SERVO_ID

\* C1: whenever takeAction returns from an ID_ASSIGN frame with dst == ID and
\* param in 1..250, ID is the param and CONFIGURED is true.
C1_AssignAccepted ==
  (Returned /\ Handling(ID_ASSIGNMENT) /\ entry.dst = entry.ID
     /\ entry.param \in AssignedRange)
  => (ID = entry.param /\ CONFIGURED # 0)

\* An accepted assignment that changed the ID and went through the servo
\* re-ID procedure has returned.
C1_Witness ==
  /\ Returned /\ Handling(ID_ASSIGNMENT) /\ entry.dst = entry.ID
  /\ entry.param \in AssignedRange /\ entry.param # entry.ID
  /\ ID = entry.param /\ SERVO_ID # entry.SERVO_ID

\* C2: whenever takeAction returns from a CLEAR_CONFIG frame with dst ==
\* BROADCAST or dst <= ID, ID is 251, CONFIGURED is false, CHILD is 0 and
\* SERVO_ID is what it was before the frame.
C2_ClearResets ==
  (Returned /\ Handling(CLEAR_CONFIG)
     /\ (entry.dst = BROADCAST \/ entry.dst <= entry.ID))
  => (ID = 251 /\ CONFIGURED = 0 /\ CHILD = 0 /\ SERVO_ID = entry.SERVO_ID)

\* A configured module with a child was cleared by a frame addressed to it.
C2_Witness ==
  /\ Returned /\ Handling(CLEAR_CONFIG) /\ entry.dst = entry.ID
  /\ entry.CONFIGURED # 0 /\ entry.CHILD # 0
  /\ ID = 251 /\ CONFIGURED = 0 /\ CHILD = 0

\* C3: in every reachable state, CONFIGURED implies that ID is in 1..250.
C3_ConfiguredHasAssignedId == CONFIGURED # 0 => ID \in AssignedRange

\* A module configured with the largest assignable ID polls in the main loop.
C3_Witness == pc = "main_loop" /\ CONFIGURED # 0 /\ ID = 250

\* C4: in every reachable state, CHILD != 0 implies that the module is
\* CONFIGURED and CHILD is the letter of a port on which a hello-listen saw a
\* start byte since the last clear.
C4_ChildWasHeard ==
  CHILD # 0 => (CONFIGURED # 0 /\ CHILD \in Ports /\ CHILD \in heard)

\* A child was registered on a port other than the first.
C4_Witness == pc = "main_loop" /\ CHILD = PORT_C /\ CONFIGURED # 0

\* C5: whenever control is in the main loop (after servoFinder, and before,
\* between and after the calls of commandReady and takeAction), State is WAIT.
C5_MainLoopInWait ==
  pc \in {"main_loop", "main_got", "takeAction", "ta_return"} => State = WAIT

\* takeAction has returned from a hello that listened for a child and then
\* transmitted, so went through HELLO_MODE and MY_RESPONSE.
C5_Witness ==
  /\ Returned /\ Handling(HELLO_BYTE) /\ entry.CONFIGURED # 0 /\ sent
  /\ State = WAIT

\* A whole module frame: two start bytes first, two end bytes last.
WholeFrame(f) ==
  /\ Len(f) >= 7
  /\ f[1] = START_TRANSMIT /\ f[2] = START_TRANSMIT
  /\ f[Len(f) - 1] = END_TRANSMIT /\ f[Len(f)] = END_TRANSMIT

\* C6: when a module response (sayHello, pingResponse, assignedID,
\* configCleared) is about to switch back to WAIT, its whole frame has been
\* put on TX_014 and on TX_23 alike, both transmitters are done, and the
\* state is still MY_RESPONSE.
C6_ResponseOnBothGroups ==
  (pc = "em_done" /\ em \in ModuleEmitters)
  => /\ WholeFrame(out014) /\ out23 = out014
     /\ ~txBusy014 /\ ~txBusy23
     /\ State = MY_RESPONSE

\* The type byte of each reply that carries no parameter of its own.
ReplyType ==
  CASE em = "pingResponse" -> PING
    [] em = "assignedID" -> ID_ASSIGN_OK
    [] em = "configCleared" -> CONFIG_CLEARED
    [] OTHER -> 0

\* C7: the ping, ID_ASSIGN_OK and CONFIG_CLEARED replies are the 8 bytes
\* F8 F8 ID 00 type 00 55 55.
C7_ReplyIsEightBytes ==
  (pc = "em_done" /\ em \in {"pingResponse", "assignedID", "configCleared"})
  => out014 = <<248, 248, ID, 0, ReplyType, 0, 85, 85>>

\* C8: while and after a HELLO frame is handled, the module has transmitted
\* only if it was not CONFIGURED, or was CONFIGURED without a child and
\* childListen heard a start byte; when takeAction returns it has, in exactly
\* these cases, sent the hello frame F8 F8 ID 00 C8 param 55 55 with param 0
\* when unconfigured and the detecting port letter when forwarding; after a
\* childListen that timed out nothing was sent and CHILD is still 0.
C8_HelloReply ==
  Handling(HELLO_BYTE) =>
    LET unconfigured == entry.CONFIGURED = 0
        listened == entry.CONFIGURED # 0 /\ entry.CHILD = 0
        hello(param) == <<248, 248, entry.ID, 0, 200, param, 85, 85>>
    IN /\ sent => (unconfigured \/ (listened /\ heard # {}))
       /\ Returned =>
            /\ (unconfigured \/ (listened /\ heard # {})) => sent
            /\ unconfigured => out014 = hello(0)
            /\ (listened /\ heard # {}) =>
                 (CHILD \in Ports /\ heard = {CHILD} /\ out014 = hello(CHILD))
            /\ (listened /\ heard = {}) => (~sent /\ CHILD = 0)
            /\ ~sent => (out014 = <<>> /\ out23 = <<>>)

\* A configured module heard a child on port B and forwarded the hello.
C8_Witness ==
  /\ Returned /\ Handling(HELLO_BYTE) /\ entry.CONFIGURED # 0 /\ entry.CHILD = 0
  /\ CHILD = PORT_B /\ out014 = <<248, 248, ID, 0, 200, 66, 85, 85>>

\* A frame that is forwarded by listening to the known child.
Forwarded ==
  /\ entry.in /\ entry.CHILD \in Ports
  /\ \/ entry.type \in {PING, ID_ASSIGNMENT} /\ entry.dst > entry.ID
     \/ entry.type = HELLO_BYTE /\ entry.CONFIGURED # 0

\* The response state of a port letter: A is RESPONSE_1, ..., D is RESPONSE_4.
RespOf(port) == RESPONSE_1 + (port - PORT_A)

\* While a frame is forwarded to the known child, no byte is transmitted and
\* ID, CONFIGURED, CHILD and SERVO_ID stay as they were; the poll runs in the
\* response state of the child's port with that port's timer; and when
\* takeAction returns the state is WAIT, the poll having ended on an end byte
\* or on the timeout, with the timer stopped and TIMEOUT cleared.
ForwardListensOnly ==
  Forwarded =>
    /\ ~sent /\ Untouched
    /\ State \in {WAIT, RespOf(entry.CHILD)}
    /\ pc \in {"chr_poll", "chr_got", "commandReady"}
         => (State = RespOf(entry.CHILD) /\ timer = {State})
    /\ Returned
         => (State = WAIT /\ respExit \in {"end", "timeout"} /\ timer = {}
             /\ TIMEOUT = 0)

\* C9: a PING or ID_ASSIGN with dst > ID, or a HELLO to a configured module,
\* that finds a child port recorded is handled by listening only: the module
\* enters the response state of that port (A: RESPONSE_1 .. D: RESPONSE_4),
\* transmits nothing, leaves ID, CONFIGURED, CHILD and SERVO_ID alone, and
\* (the timer being fair) does return to WAIT, after an end byte on that
\* child's receiver or the timeout of that child's timer.
C9_ForwardReturnsToWait ==
  /\ []ForwardListensOnly
  /\ (Forwarded /\ pc = "childResponse") ~> (Forwarded /\ Returned /\ State = WAIT)

\* A ping for a module further down was forwarded to the child on port D and
\* the child's end byte ended the wait.
C9_Witness ==
  /\ Returned /\ Forwarded /\ entry.type = PING /\ entry.CHILD = PORT_D
  /\ respExit = "end" /\ State = WAIT

\* The acknowledgement of a clear, as far as the claim describes it.
ClearAck(f, id) ==
  /\ WholeFrame(f)
  /\ f[3] = id /\ f[4] = MASTER_ID /\ f[5] = CONFIG_CLEARED

\* C10: a CLEAR_CONFIG with dst == ID is acknowledged with the ID held before
\* the clear, and ID, CONFIGURED and CHILD are reset only after the whole
\* acknowledgement has been transmitted; a CLEAR_CONFIG with dst == BROADCAST
\* or dst < ID clears without any byte being transmitted.
C10_ClearAckOrder ==
  Handling(CLEAR_CONFIG) =>
    /\ (entry.dst = entry.ID /\ ~Returned)
         => (ID = entry.ID /\ CONFIGURED = entry.CONFIGURED /\ CHILD = entry.CHILD)
    /\ (entry.dst = entry.ID /\ pc \in {"ta_clear", "ta_return"})
         => (ClearAck(out014, entry.ID) /\ ClearAck(out23, entry.ID)
             /\ ~txBusy014 /\ ~txBusy23)
    /\ (entry.dst = entry.ID /\ Returned)
         => (ID = DEFAULT_ID /\ CONFIGURED = 0 /\ CHILD = 0)
    /\ (entry.dst = BROADCAST \/ entry.dst < entry.ID)
         => (~sent /\ (Returned => (ID = DEFAULT_ID /\ CONFIGURED = 0 /\ CHILD = 0)))

\* A configured module acknowledged a clear with its assigned ID and was reset.
C10_Witness ==
  /\ Returned /\ Handling(CLEAR_CONFIG) /\ entry.dst = entry.ID
  /\ entry.ID = 250 /\ out014[3] = 250 /\ ID = DEFAULT_ID

\* The servo frames as they are on the wire, but for the checksum.
IsServoWrite(f, id, addr, val) ==
  /\ Len(f) = 8
  /\ SubSeq(f, 1, 7) = <<SERVO_START, SERVO_START, id, WRITE_LENGTH, WRITE_SERVO,
                         addr, val>>
IsServoPing(f, id) ==
  /\ Len(f) = 6
  /\ SubSeq(f, 1, 5) = <<SERVO_START, SERVO_START, id, PING_LENGTH, PING_SERVO>>

\* The frames of one round of the re-ID procedure: a write of ID to address 3
\* of the servo as it was known when the frame arrived, then broadcast pings,
\* at most SERVO_COMM_ATTEMPTS of them.
ReidRound ==
  reidLog # <<>> =>
    /\ IsServoWrite(reidLog[1], entry.SERVO_ID, ID_ADDRESS, ID)
    /\ \A j \in 2..Len(reidLog) : IsServoPing(reidLog[j], BROADCAST)
    /\ Len(reidLog) <= 1 + SERVO_COMM_ATTEMPTS

\* After an accepted assignment the servo carries the module's ID.
ReidEnd ==
  (Returned /\ Handling(ID_ASSIGNMENT) /\ entry.dst = entry.ID
     /\ entry.param \in AssignedRange)
  => (SERVO_ID = ID /\ State = WAIT)

\* SERVO_ID changes, while a frame is handled, only on a reply without error
\* whose source is ID, received in INITIALIZE after a broadcast ping.
ReidChange ==
  (entry.in /\ SERVO_ID' # SERVO_ID)
  => /\ pc = "ta_reid_got" /\ ret # 0
     /\ COMMAND_ERROR = 0 /\ COMMAND_SOURCE = ID /\ SERVO_ID' = ID
     /\ State = INITIALIZE
     /\ Len(reidLog) >= 2 /\ IsServoPing(reidLog[Len(reidLog)], BROADCAST)

\* C11: the re-ID procedure changes SERVO_ID only on a servo reply with src ==
\* ID and error == 0 received while listening after a broadcast ping; each
\* round emits one servo write of ID to address 3 of the current SERVO_ID and
\* then at most 10 broadcast pings; when it ends SERVO_ID == ID and the state
\* is WAIT.
C11_ReidProcedure ==
  /\ [](ReidRound /\ ReidEnd)
  /\ [][ReidChange]_vars

\* The procedure ended in a round in which the servo answered the third ping.
C11_Witness ==
  /\ Returned /\ Handling(ID_ASSIGNMENT) /\ Len(reidLog) = 4
  /\ SERVO_ID = ID /\ entry.SERVO_ID # ID

\* The frame being handled repeats the ID assignment handled just before it.
Repeated ==
  /\ Handling(ID_ASSIGNMENT) /\ prev.on
  /\ prev.dst = entry.dst /\ prev.param = entry.param

\* C12: when takeAction returns from the second of two consecutive identical
\* ID_ASSIGN frames, ID, CONFIGURED and SERVO_ID are what they were after the
\* first.
C12_AssignIdempotent ==
  (Returned /\ Repeated)
  => (ID = prev.ID /\ CONFIGURED = prev.CONFIGURED /\ SERVO_ID = prev.SERVO_ID)

\* An assignment of a module's own ID was handled twice in a row and accepted
\* the second time as well.
C12_Witness ==
  /\ Returned /\ Repeated /\ entry.dst = entry.ID /\ entry.param = entry.dst
  /\ ID = entry.param /\ CONFIGURED # 0 /\ sent

\* The sum of the bytes of f from position j on.
RECURSIVE SumFrom(_, _)
SumFrom(f, j) == IF j > Len(f) THEN 0 ELSE f[j] + SumFrom(f, j + 1)

\* C13: the checksum byte c that servoInstruction emits last satisfies
\* (id + len + instr + addr + val + c) mod 256 == 255 for the arguments it
\* was called with; these are the bytes of the frame after the two start
\* bytes, so they add up to 255 modulo 256 as well.
C13_ChecksumLaw ==
  (pc = "em_done" /\ em = "servoInstruction")
  => LET c == out014[Len(out014)] IN
       /\ c \in 0..255
       /\ (sargs.id + sargs.length + sargs.instruction + sargs.address
             + sargs.value + c) % 256 = 255
       /\ SumFrom(out014, 3) % 256 = 255

\* A write whose bytes add up to 514 went out with checksum 253.
C13_Witness ==
  /\ pc = "em_done" /\ em = "servoInstruction"
  /\ out014 = <<255, 255, 254, 4, 3, 3, 250, 253>>

\* The frame a module emitter is to send: its own ID, the master, the type,
\* and as param the child port in a hello and 0 in the other replies.
Encoded ==
  IF em = "sayHello" THEN <<ID, MASTER_ID, HELLO_BYTE, CHILD>>
                     ELSE <<ID, MASTER_ID, ReplyType, 0>>

\* C14: the bytes a module emitter has put on the wire, read by commandReady
\* in WAIT, decode to the tuple (src, dst, type, param) that was sent.
C14_RoundTrip ==
  (pc = "em_done" /\ em \in ModuleEmitters) => WaitDecode(out014) = Encoded

\* servoFinder has not returned yet: control is in it, in a function it
\* called, or in its last configToggle.
SfLabels == {"sfA_while", "sfA_for", "sfA_poll", "sfA_got",
             "sfB_for", "sfB_poll", "sfB_got", "sf_end"}
Booting ==
  \/ pc \in SfLabels
  \/ \E j \in DOMAIN stack : stack[j] \in SfLabels
  \/ pc \in {"configToggle", "ct_load"} /\ stack = <<"main_loop">>

\* Until servoFinder returns the state is never WAIT, no frame was handed to
\* takeAction, no module emitter runs and nothing is put on TX_23.
BootIsSilent ==
  Booting => /\ State # WAIT /\ ~entry.in
             /\ em \in {"none", "servoInstruction"} /\ out23 = <<>>

\* Once it has returned, a servo ID in 0..253 and the status return level
\* STATUS_RET_LEVEL are on record.
BootIsComplete ==
  ~Booting => (SERVO_ID \in 0..253 /\ status_return_level = STATUS_RET_LEVEL)

\* During boot SERVO_ID is recorded only from a reply without error whose
\* source is in 0..253, and the level only from a reply without error whose
\* param is STATUS_RET_LEVEL, read from the servo whose ID is known, both
\* received in INITIALIZE.
BootRecords ==
  /\ (Booting /\ SERVO_ID' # SERVO_ID)
       => /\ pc = "sfA_got" /\ ret # 0 /\ State = INITIALIZE
          /\ COMMAND_ERROR = 0 /\ COMMAND_SOURCE \in 0..253
          /\ SERVO_ID' = COMMAND_SOURCE
  /\ status_return_level' # status_return_level
       => /\ pc = "sfB_got" /\ ret # 0 /\ State = INITIALIZE
          /\ COMMAND_ERROR = 0 /\ COMMAND_PARAM = STATUS_RET_LEVEL
          /\ SERVO_ID \in 0..253
          /\ status_return_level' = STATUS_RET_LEVEL

\* C15: no module frame is read or answered before servoFinder has returned;
\* the main loop is entered, and the state first becomes WAIT, only after
\* SERVO_ID was recorded from a ping reply with error == 0 and src in 0..253
\* and a read reply with error == 0 and param == STATUS_RET_LEVEL came in.
C15_BootFirst ==
  /\ [](BootIsSilent /\ BootIsComplete)
  /\ [][BootRecords]_vars

\* The main loop polls for its first frame, the servo having answered as 250.
C15_Witness ==
  /\ pc = "main_loop" /\ State = WAIT /\ ~prev.on /\ ID = DEFAULT_ID
  /\ SERVO_ID = 250 /\ status_return_level = STATUS_RET_LEVEL

\* A start byte was seen and the reader is in its blocking reads.
ByteArrived ==
  pc \in {"cr_get2", "cr_src", "cr_dst", "cr_type", "cr_param", "in_get2", "in_frame"}

\* Each kind of wait comes to its end, or else a start byte has arrived.
ChildResponseEnds == (pc = "childResponse") ~> (pc = "ta_return" \/ ByteArrived)
ChildListenEnds == (pc = "childListen") ~> (pc = "ta_listened")
SettleEnds == (pc = "ct_settle") ~> (pc \in {"em_put", "si_prep"})
ServoWindowEnds ==
  (pc \in {"sfA_poll", "sfB_poll", "ta_reid_poll"})
    ~> (pc \in {"sfA_for", "sfB_for", "ta_reid_for"} \/ ByteArrived)

\* C16: every call of childResponse (whatever CHILD is, 0 included) and of
\* childListen, every settle wait of configToggle(MY_RESPONSE) and every servo
\* listen window ends once its timer has fired, the timers and the
\* transmitters being fair, without a further byte arriving on the bus.
C16_WaitsAreBounded ==
  /\ ChildResponseEnds /\ ChildListenEnds /\ SettleEnds /\ ServoWindowEnds

\* C17: whenever the main loop polls for a frame in WAIT (after servoFinder,
\* the re-ID procedure, childListen and childResponse), TIMEOUT is clear.
C17_TimeoutClearAtPoll == pc = "main_loop" => TIMEOUT = 0

\* Where a byte is about to be put, and while a transmitter shifts out, the
\* state is MY_RESPONSE and the transmitter configuration is loaded.
TransmitInResponse ==
  (pc = "em_put" \/ txBusy014 \/ txBusy23)
  => (State = MY_RESPONSE /\ MY_RESPONSE \in loaded)

\* A step that puts a byte on a transmitter starts and ends in MY_RESPONSE.
PutInResponse ==
  (Len(out014') > Len(out014) \/ Len(out23') > Len(out23))
  => (State = MY_RESPONSE /\ State' = MY_RESPONSE)

\* C18: every byte of a module frame or a servo frame is put while the state
\* is MY_RESPONSE, never in WAIT, RESPONSE_1..4, HELLO_MODE, INITIALIZE or
\* before there is a state.
C18_TransmitOnlyInResponse ==
  /\ []TransmitInResponse
  /\ [][PutInResponse]_vars

\* The third byte of a reply is being shifted out on both transmitters.
C18_Witness ==
  /\ pc = "em_put" /\ Len(out014) = 3 /\ Len(out23) = 3
  /\ txBusy014 /\ txBusy23 /\ State = MY_RESPONSE

\* Outside configToggle the loaded configuration is the one State names, and
\* none as long as there is no state.
LoadedIsState ==
  pc \notin {"ct_load", "ct_settle"}
  => loaded = (IF State = 0 THEN {} ELSE {State})

\* Between the unload and the load nothing is loaded and the five bus pins
\* are high and detached; while the response mode settles only the
\* transmitter configuration is loaded.
NothingLoadedInToggle ==
  /\ pc = "ct_load"
       => (loaded = {} /\ BusPins \subseteq PRT0DR /\ PRT0GS \cap BusPins = {})
  /\ pc = "ct_settle" => loaded = {MY_RESPONSE}

\* Everything was unloaded blindly at most once, namely in the first
\* configToggle, which found no state.
BlindUnloadOnce ==
  /\ blindUnloads <= 1
  /\ blindUnloads = 0 => (State = 0 /\ pc \notin {"ct_load", "ct_settle"})
  /\ pc \in {"ct_load", "ct_settle"} => blindUnloads = 1

\* C19: outside configToggle exactly one configuration is loaded, the one
\* State names (none before the first configToggle, when there is no state
\* yet); inside configToggle, from the unload to the load, none is loaded and
\* bits 0..4 of port 0 are driven high and detached from the global bus; the
\* unload-everything path is taken exactly once, by the first configToggle,
\* and once there is a state there always is one.
C19_OneConfigLoaded ==
  /\ [](LoadedIsState /\ NothingLoadedInToggle /\ BlindUnloadOnce)
  /\ [][State # 0 => State' # 0]_vars

\* A configured module that heard a child in HELLO_MODE is between the
\* unload and the load of the response mode.
C19_Witness ==
  /\ pc = "ct_load" /\ State = HELLO_MODE /\ mode = MY_RESPONSE
  /\ loaded = {} /\ CONFIGURED # 0 /\ PRT0GS = {} /\ blindUnloads = 1

\* While configToggle(MY_RESPONSE) settles, the TX_01234 timer is the only
\* timer that runs, the state is not yet MY_RESPONSE and nothing has been put
\* on a transmitter; where the caller goes on, up to its first put, the
\* timer is stopped and TIMEOUT is clear.
SettleQuiet ==
  /\ pc = "ct_settle"
       => /\ timer = {MY_RESPONSE} /\ State # MY_RESPONSE
          /\ out014 = <<>> /\ out23 = <<>> /\ ~txBusy014 /\ ~txBusy23
  /\ (pc = "si_prep" \/ (pc = "em_put" /\ k = 1))
       => (State = MY_RESPONSE /\ timer = {} /\ TIMEOUT = 0)

\* The wait starts with TIMEOUT cleared and the timer started, TIMEOUT is set
\* during it by the interrupt of the TX_01234 timer only, and it ends only
\* with TIMEOUT set, by stopping the timer, clearing TIMEOUT and making the
\* state MY_RESPONSE.
SettleSteps ==
  /\ (pc # "ct_settle" /\ pc' = "ct_settle")
       => (mode = MY_RESPONSE /\ TIMEOUT' = 0 /\ MY_RESPONSE \in timer')
  /\ (pc = "ct_settle" /\ TIMEOUT' # TIMEOUT /\ pc' = "ct_settle")
       => (TIMEOUT' = 1 /\ timer = {MY_RESPONSE})
  /\ (pc = "ct_settle" /\ pc' # "ct_settle")
       => /\ TIMEOUT = 1 /\ TIMEOUT' = 0 /\ timer' = {}
          /\ State' = MY_RESPONSE /\ pc' \in {"em_put", "si_prep"}
  /\ (State # MY_RESPONSE /\ State' = MY_RESPONSE) => pc = "ct_settle"

\* C20: on every entry into MY_RESPONSE TIMEOUT is cleared and the TX_01234
\* timer started, no byte is put until that timer's interrupt (and not a
\* timer started for an earlier role) has set TIMEOUT, and the timer is
\* stopped and TIMEOUT cleared before the state becomes MY_RESPONSE and
\* before the first put.
C20_Settle ==
  /\ []SettleQuiet
  /\ [][SettleSteps]_vars

\* The settle wait of a hello that is forwarded after childListen heard a
\* child (and left without stopping the hello timer) is over: TIMEOUT is set.
C20_Witness ==
  /\ pc = "ct_settle" /\ TIMEOUT = 1 /\ em = "sayHello"
  /\ CONFIGURED # 0 /\ CHILD \in Ports /\ timer = {MY_RESPONSE}

\* An ID assignment that takeAction accepts is being handled.
Accepted ==
  /\ Handling(ID_ASSIGNMENT) /\ entry.dst = entry.ID
  /\ entry.param \in AssignedRange

\* What assignedID has put on a transmitter so far is the beginning of a frame
\* from the new ID to the master with type ID_ASSIGN_OK.
AckHead == <<START_TRANSMIT, START_TRANSMIT, entry.param, MASTER_ID, ID_ASSIGN_OK>>
AckBegun(f) == \A j \in 1..Len(f) : j <= 5 => f[j] = AckHead[j]
AckComplete ==
  /\ Len(out014) >= 5 /\ AckBegun(out014)
  /\ ~txBusy014 /\ ~txBusy23
  /\ em = "none" /\ State = WAIT

\* From the first step of takeAction on the identity is updated; while the
\* acknowledgement is under way no servo frame has been put; the re-ID
\* procedure is reached with the acknowledgement complete; a servo frame is
\* put only inside the procedure and only while ID differs from SERVO_ID.
AssignOrder ==
  Accepted =>
    /\ pc # "takeAction" => (ID = entry.param /\ CONFIGURED = 1)
    /\ em = "assignedID" => (AckBegun(out014) /\ reidLog = <<>>)
    /\ (stack # <<>> /\ Head(stack) = "ta_reid")
         => (reidLog = <<>> /\ em # "servoInstruction")
    /\ (pc = "ta_reid" /\ reidLog = <<>>) => AckComplete
    /\ (pc = "servoInstruction" \/ em = "servoInstruction")
         => /\ ID # SERVO_ID
            /\ \E j \in 1..Len(stack) : stack[j] \in {"ta_reid_for", "ta_reid_poll"}
    /\ entry.param = entry.SERVO_ID => (reidLog = <<>> /\ em # "servoInstruction")

\* The procedure is entered from the end of the acknowledgement only.
AssignSteps ==
  /\ (Accepted /\ pc = "takeAction") => pc' = "assignedID"
  /\ (entry.in /\ pc # "ta_reid" /\ pc' = "ta_reid")
       => (pc = "ta_reid_for" \/ (Accepted /\ AckComplete'))
  /\ (entry.in /\ pc # "servoInstruction" /\ pc' = "servoInstruction")
       => (Accepted /\ pc \in {"ta_reid", "ta_reid_for"})

\* C21: on an accepted ID assignment ID and CONFIGURED are updated first, then
\* the ID_ASSIGN_OK frame is sent with the new ID as its source, then, only if
\* ID differs from SERVO_ID, the servo re-ID procedure starts; no servo frame
\* is put before the ID_ASSIGN_OK frame is complete, and none when ID equals
\* SERVO_ID.
C21_AssignOrder ==
  /\ []AssignOrder
  /\ [][AssignSteps]_vars

\* The first servo frame of the procedure is being put, after the
\* acknowledgement of an assignment that changed the ID.
C21_Witness ==
  /\ Accepted /\ em = "servoInstruction" /\ pc = "em_put" /\ k = 2
  /\ reidLog = <<>> /\ ID = entry.param /\ entry.ID # ID /\ State = MY_RESPONSE

\* The positions of the WAIT reader in which it waits for a byte.
WaitReads == {"cr_get2", "cr_src", "cr_dst", "cr_type", "cr_param"}

\* C22: framing errors in WAIT are dropped: after a stray byte, a lone start
\* byte followed by another byte, or a frame cut off after its start bytes,
\* commandReady does not wait for bytes that are not coming, takeAction is
\* called for a well-formed frame only, with exactly that frame's source,
\* destination, type and param, and the state stays WAIT.
C22_FramingErrorsDropped ==
  wire.scripted =>
    /\ State = WAIT
    /\ ~(pc \in WaitReads /\ wire.bytes = <<>>)
    /\ pc = "takeAction"
         => /\ wire.frame # <<>>
            /\ <<COMMAND_SOURCE, COMMAND_DESTINATION, COMMAND_TYPE, COMMAND_PARAM>>
                 = WaitDecode(wire.frame)

\* The frame being handled matches no row of the decision table.
IgnoredAssign ==
  /\ Handling(ID_ASSIGNMENT)
  /\ \/ entry.dst = entry.ID /\ entry.param \notin AssignedRange
     \/ entry.dst < entry.ID
IgnoredPing == Handling(PING) /\ entry.dst < entry.ID
IgnoredClear ==
  Handling(CLEAR_CONFIG) /\ entry.dst > entry.ID /\ entry.dst # BROADCAST
IgnoredType ==
  entry.in /\ entry.type \notin {HELLO_BYTE, PING, ID_ASSIGNMENT, CLEAR_CONFIG}
Ignored == IgnoredAssign \/ IgnoredPing \/ IgnoredClear \/ IgnoredType

\* A step leaves the identity, the state and the LED as they are and puts
\* nothing on a transmitter.
NothingDone ==
  /\ UNCHANGED <<ID, CONFIGURED, CHILD, SERVO_ID, State, PRT2DR>>
  /\ ~sent' /\ em' = "none" /\ UNCHANGED <<txBusy014, txBusy23>>

\* C23: a frame that matches no row of the decision table (an ID assignment
\* to this module with a param outside 1..250, a ping or an ID assignment
\* with dst < ID, a clear with dst > ID other than the broadcast, a frame of
\* unknown type) leaves ID, CONFIGURED, CHILD, SERVO_ID, the state and the
\* LED unchanged and nothing is transmitted.
C23_MismatchIgnored == [][Ignored => NothingDone]_vars

\* The main loop is about to poll, in WAIT.
Polling == pc = "main_loop" /\ State = WAIT
\* The LED is on bit 0 of port 2 and lights when the bit is 0.
LedOn == 0 \notin PRT2DR

\* C24: whenever the main loop polls in WAIT, the LED is on if and only if
\* CONFIGURED is true.
C24_LedShowsConfigured == Polling => (LedOn <=> CONFIGURED # 0)

\* The pins of port 0 to the children.
ChildPins == BusPins \ {0}

\* C25: whenever the main loop polls in WAIT, pin 0 of port 0 is attached to
\* the global bus, and pins 1..4 are attached if and only if CONFIGURED is
\* true: all four when it is, none when it is not (so only pin 0 after a
\* clear).
C25_AttachShowsConfigured ==
  Polling =>
    /\ 0 \in PRT0GS
    /\ IF CONFIGURED # 0 THEN ChildPins \subseteq PRT0GS
                          ELSE PRT0GS \cap ChildPins = {}

\* The WAIT reader hands a frame it has decoded to the main loop, and the
\* main loop hands it, as it was decoded, to takeAction; takeAction is called
\* for such a frame only.
DecodedGoesToMain ==
  (pc = "cr_param" /\ pc' # "cr_param") => (ret' = 1 /\ pc' = "main_got")
MainCallsTakeAction ==
  /\ (pc = "main_got" /\ ret # 0) => (pc' = "takeAction" /\ UNCHANGED cmd)
  /\ (pc # "takeAction" /\ pc' = "takeAction") => (pc = "main_got" /\ ret # 0)

\* C26: every frame commandReady decodes in WAIT is passed to takeAction,
\* once; no polling loop but the main loop takes a frame from the WAIT
\* receiver and drops it.
C26_DecodedIsHandled == [][DecodedGoesToMain /\ MainCallsTakeAction]_vars

\* CHILD changes from 0 to a port letter, in hello-listen inside childListen
\* while a hello is handled, or to 0 by a clear that applies to the module.
ChildChange ==
  CHILD' # CHILD =>
    \/ /\ CHILD = 0 /\ CHILD' \in Ports
       /\ State = HELLO_MODE /\ stack # <<>> /\ Head(stack) = "cl_got"
       /\ Handling(HELLO_BYTE)
    \/ /\ CHILD' = 0
       /\ Handling(CLEAR_CONFIG) /\ ClearApplies(entry.dst, entry.ID)

\* Since the last clear at most one port was recorded, and it is the child.
OneChild == heard \subseteq {CHILD}

\* C27: CHILD changes only from 0 to a port letter (inside childListen) or to
\* 0 (on a clear); once a port is recorded no later hello, ping or ID
\* assignment replaces it by another port unless a clear came between, so
\* the module tracks at most one downstream port at a time.
C27_OneChildPort ==
  /\ []OneChild
  /\ [][ChildChange]_vars

\* A module that had recorded port B handled a later hello and still has
\* port B.
C27_Witness ==
  /\ Returned /\ Handling(HELLO_BYTE)
  /\ entry.CHILD = PORT_B /\ CHILD = PORT_B /\ heard = {PORT_B}

====
